---- MODULE Spec2Model ----
(***************************************************************************)
(* PyExpand: in-place expansion of  /*.py ... */  directives.              *)
(*                                                                         *)
(* A byte is a one-character string (NUL stands for the zero byte); a      *)
(* DS_StringView is the sequence of the bytes it views.                    *)
(***************************************************************************)
EXTENDS Integers, Sequences, FiniteSets, TLC

VARIABLES
    pc,                          \* position of main()
    disk,                        \* bytes of the input file on disk
    file_data,                   \* the source buffer read by ReadEntireFile
    remaining,                   \* view of the not yet scanned bytes
    cur,                         \* offset of `remaining` in file_data
    ranges_to_keep,              \* DS_Array<DS_StringView>
    python_strings,              \* DS_Array<DS_StringView>
    python_strings_is_multiline, \* DS_Array<bool>
    python_results,              \* DS_Array<DS_StringView>
    directives,                  \* offsets of the directives scanned so far
    captured,                    \* print_callback.Result of every finished run
    emitted,                     \* what the splice loop added before each range
    i,                           \* index of the run loop
    temp,                        \* __pyexpand_temp.py: <<>> when absent, <<bytes>> otherwise
    exit_status,                 \* "none" while running, "0", "1", or "abort"
    interp,                      \* the interpreter: temp file contents |-> output, as far as asked
    runNo,                       \* 1 for the first invocation, 2 for the second
    firstWritten,                \* <<bytes>> the first invocation wrote, <<>> before
    past_end,                    \* some invocation has read behind the end of its source buffer
    ranges_from,                 \* offset in file_data of the first byte of each kept range
    exit_code,                   \* exit code of the latest interpreter run
    fault,                       \* the operation of the environment that failed last, or "none"
    upc, uarg, ures,             \* a single call of a function: position, argument, result
    OUT, ERR,                    \* bytes in the stdout pipe and in the stderr pipe
    OUT_Wr, ERR_Wr,              \* the parent holds its handle of the pipe's write end
    child                        \* the writes the child process has still to do

vars == <<pc, disk, file_data, remaining, cur, ranges_to_keep, python_strings,
          python_strings_is_multiline, python_results, directives, captured,
          emitted, i, temp, exit_status, interp, runNo, firstWritten,
          past_end, ranges_from, exit_code, fault, upc, uarg, ures, OUT, ERR,
          OUT_Wr, ERR_Wr, child>>

mainVars == <<pc, disk, file_data, remaining, cur, ranges_to_keep, python_strings,
              python_strings_is_multiline, python_results, directives, captured,
              emitted, i, temp, exit_status, interp, runNo, firstWritten, past_end,
              ranges_from, exit_code, fault>>

pipeVars == <<OUT, ERR, OUT_Wr, ERR_Wr, child>>

unitVars == <<upc, uarg, ures, OUT, ERR, OUT_Wr, ERR_Wr, child>>

----------------------------------------------------------------------------
\* Bytes and literals

LF  == "\n"
CR  == "\r"
TAB == "\t"
SP  == " "
NUL == "NUL"

pyexpand_keyword == <<"/", "*", ".", "p", "y">>
EndComment == <<"*", "/">>
BeginComment == <<"/", "*">>
ReturnKeyword == <<"r", "e", "t", "u", "r", "n">>
CRLF == <<CR, LF>>
DefLine == <<"d", "e", "f", SP, "u", "s", "e", "r", "_", "f", "n", "(", ")", ":", LF>>
PrintUserFn == <<"p", "r", "i", "n", "t", "(", "u", "s", "e", "r", "_", "f", "n", "(", ")", ")", LF>>
PrintOpen == <<"p", "r", "i", "n", "t", "(">>
PrintClose == <<")", LF>>
NoReturnError == <<"p", "r", "i", "n", "t", "(", "'", "E", "r", "r", "o", "r", ":", SP, "N", "o", SP, "r", "e", "t", "u", "r", "n", SP, "s", "t", "a", "t", "e", "m", "e", "n", "t", SP, "f", "o", "u", "n", "d", SP, "i", "n", SP, "a", SP, "m", "u", "l", "t", "i", "l", "i", "n", "e", SP, "c", "o", "d", "e", SP, "b", "l", "o", "c", "k", "!", "'", ")">>

----------------------------------------------------------------------------
\* Bounds and the inputs drawn within them

MaxTok == 4
MaxBodyTok == 4
MaxOut == 4

RECURSIVE Flatten(_)
Flatten(ts) == IF ts = <<>> THEN <<>> ELSE Head(ts) \o Flatten(Tail(ts))

TokenStrings(tokens, n) == {Flatten(ts) : ts \in UNION {[1..k -> tokens] : k \in 0..n}}

FileTokens == {pyexpand_keyword \o EndComment, pyexpand_keyword, EndComment, BeginComment, ReturnKeyword, <<"a">>, <<NUL>>}
Files == TokenStrings(FileTokens, MaxTok)

BodyTokens == {ReturnKeyword, <<"r", "e", "t">>, <<LF>>, <<CR>>, <<TAB>>, <<SP>>, <<"a">>, <<NUL>>}
Bodies == TokenStrings(BodyTokens, MaxBodyTok)

OutputTokens == {<<CR>>, <<LF>>, <<"a">>}
CapturedOutputs == TokenStrings(OutputTokens, MaxOut)

\* What the interpreter may print for one program in a whole run of the tool.
InterpreterOutputs ==
    { <<>>, <<"7", "7">>, <<"7", CR, LF>>,
      <<SP, TAB, "7", CR, LF>>, <<"/", "*", "7", CR, LF>> }

\* What a child process does: up to MaxWrites writes of one byte each, to its
\* stdout or to its stderr, in any order; a pipe holds up to PipeCapacity bytes.
MaxWrites == 4
PipeCapacity == 2

ChildWrites == [to : {"out", "err"}, byte : {"a", "b", NUL}]
Scripts == UNION {[1..k -> ChildWrites] : k \in 0..MaxWrites}

\* The calls of Find that are followed on their own: views of up to MaxView
\* bytes, patterns of up to MaxPattern bytes, start_from up to one past Size.
MaxView == 4
MaxPattern == 2

FindViews == UNION {[1..n -> {"/", "*", "a"}] : n \in 0..MaxView}
FindPatterns == UNION {[1..n -> {"/", "*"}] : n \in 0..MaxPattern}
FindCalls == {c \in [s : FindViews, other : FindPatterns, start_from : 0..(MaxView + 1)] :
                 c.start_from <= Len(c.s) + 1}

\* The exit codes an interpreter run may end with.
ExitCodes == {0, 1}

\* Two bytes found behind the end of the source buffer by an out-of-bounds view.
BytesPastEnd == { <<NUL, NUL>>, <<"a", "*">> }

----------------------------------------------------------------------------
\* ds.cpp / ds.h

\* Find's loop with `ptr < end` for `ptr <= end`: the last position is not probed.
RECURSIVE FindLoopStopsEarly(_, _, _)
FindLoopStopsEarly(s, other, ptr) ==
    IF ptr >= Len(s) - Len(other) THEN Len(s)
    ELSE IF SubSeq(s, ptr + 1, ptr + Len(other)) = other THEN ptr
    ELSE FindLoopStopsEarly(s, other, ptr + 1)

\* The probe loop of Find: ptr runs from start_from to Size - other.Size.
RECURSIVE FindLoop(_, _, _)
FindLoop(s, other, ptr) ==
    IF ptr > Len(s) - Len(other) THEN Len(s)
    ELSE IF SubSeq(s, ptr + 1, ptr + Len(other)) = other THEN ptr
    ELSE FindLoop(s, other, ptr + 1)

\* Find with its loop begun at the start of the view, whatever start_from is.
FindFromStart(s, other, start_from) ==
    IF Len(other) <= Len(s) THEN FindLoop(s, other, 0) ELSE Len(s)

Find(s, other, start_from) ==
    IF Len(other) <= Len(s) THEN FindLoop(s, other, start_from) ELSE Len(s)

\* The assertion of Find.
FindOk(s, start_from) == start_from >= 0 /\ start_from <= Len(s)

\* Split advancing the view to the separator it found, not behind it.
SplitLeavesSeparator(s, split_by) ==
    LET offset == Find(s, split_by, 0)
    IN  [result |-> SubSeq(s, 1, offset), rest |-> SubSeq(s, offset + 1, Len(s))]

\* Split returns the bytes before split_by and advances the view behind it.
Split(s, split_by) ==
    LET offset == Find(s, split_by, 0)
        advance == IF offset + Len(split_by) > Len(s) THEN Len(s) ELSE offset + Len(split_by)
    IN  [result |-> SubSeq(s, 1, offset), rest |-> SubSeq(s, advance + 1, Len(s))]

\* The three assertions of Slice(from, to).
SliceOk(s, from, to) == from >= 0 /\ to <= Len(s) /\ to >= from

Slice(s, from, to) == SubSeq(s, from + 1, to)

\* What a printf conversion %s / %.*s copies of a view: the bytes before its first zero byte.
RECURSIVE CStr(_)
CStr(s) ==
    IF s = <<>> \/ Head(s) = NUL THEN <<>> ELSE <<Head(s)>> \o CStr(Tail(s))

----------------------------------------------------------------------------
\* main.cpp: the snippet transformer (lines 67-108)

IsMultiline(python_string) ==
    Find(python_string, ReturnKeyword, 0) # Len(python_string)

StripCR(line) ==
    IF Len(line) > 0 /\ line[Len(line)] = CR THEN SubSeq(line, 1, Len(line) - 1) ELSE line

\* The indentation test with the SPACE case forgotten.
IndentedLineTabOnly(line) ==
    IF Len(line) > 0
    THEN (IF line[1] # TAB THEN <<TAB>> ELSE <<>>) \o line \o <<LF>>
    ELSE <<>>

IndentedLine(line) ==
    IF Len(line) > 0
    THEN (IF line[1] # TAB /\ line[1] # SP THEN <<TAB>> ELSE <<>>) \o line \o <<LF>>
    ELSE <<>>

\* The while loop of the multi-statement branch.
RECURSIVE IndentedLines(_)
IndentedLines(lines) ==
    IF Len(lines) > 0
    THEN LET sp == Split(lines, <<LF>>)
         IN  IndentedLine(StripCR(sp.result)) \o IndentedLines(sp.rest)
    ELSE <<>>

\* The counting loop counting as the multi-statement loop emits: a line counts
\* when it is not empty after a trailing CR is dropped.
RECURSIVE LinesCountNonEmpty(_)
LinesCountNonEmpty(lines) ==
    IF Len(lines) > 0
    THEN LET sp == Split(lines, <<LF>>)
         IN  (IF Len(StripCR(sp.result)) > 0 THEN 1 ELSE 0) + LinesCountNonEmpty(sp.rest)
    ELSE 0

\* The while loop of the single-expression branch.
RECURSIVE LinesCount(_)
LinesCount(lines) ==
    IF Len(lines) > 0 THEN 1 + LinesCount(Split(lines, <<LF>>).rest) ELSE 0

\* The transformer with the error statement ended by a line feed like the
\* other two forms.
NewPythonStringErrorLine(python_string) ==
    IF IsMultiline(python_string)
    THEN DefLine \o IndentedLines(python_string) \o PrintUserFn
    ELSE IF LinesCount(python_string) <= 1
         THEN PrintOpen \o CStr(python_string) \o PrintClose
         ELSE NoReturnError \o <<LF>>

NewPythonString(python_string) ==
    IF IsMultiline(python_string)
    THEN DefLine \o IndentedLines(python_string) \o PrintUserFn
    ELSE IF LinesCount(python_string) <= 1
         THEN PrintOpen \o CStr(python_string) \o PrintClose
         ELSE NoReturnError

----------------------------------------------------------------------------
\* main.cpp: output normalisation (lines 142-146) and the splice loop (lines 154-171)

\* Slice(Size - 2) asserts from >= 0: it fails for an output of fewer than two bytes.
TrimAsserts(python_result) == SliceOk(python_result, Len(python_result) - 2, Len(python_result))

\* The result with one trailing CR LF removed. Without the assertion (NDEBUG) an
\* output of fewer than two bytes is compared through an out-of-bounds view and
\* is kept as it is when those bytes are not CR LF.
PythonResult(python_result) ==
    IF Len(python_result) >= 2
       /\ Slice(python_result, Len(python_result) - 2, Len(python_result)) = CRLF
    THEN Slice(python_result, 0, Len(python_result) - 2)
    ELSE python_result

\* for (; indent < Size; indent++) if (Data[indent] != ' ' && Data[indent] != '\t') break;
RECURSIVE IndentLoop(_, _)
IndentLoop(python_string, indent) ==
    IF indent < Len(python_string)
       /\ ~(python_string[indent + 1] # SP /\ python_string[indent + 1] # TAB)
    THEN IndentLoop(python_string, indent + 1)
    ELSE indent

\* The indent taken whether or not the directive is multi-statement.
IndentStrAnyMode(python_result, is_multiline) ==
    Slice(python_result, 0, IndentLoop(python_result, 0))

IndentStr(python_result, is_multiline) ==
    Slice(python_result, 0, IF is_multiline THEN IndentLoop(python_result, 0) ELSE 0)

Separator(is_multiline) == IF is_multiline THEN <<LF>> ELSE <<SP>>

\* What the loop adds before ranges_to_keep[i], i > 0.
Emission(python_result, is_multiline) ==
    [sep |-> Separator(is_multiline), text |-> python_result,
     indent |-> IndentStr(python_result, is_multiline)]

EmissionBytes(e) == e.sep \o e.text \o e.sep \o e.indent

\* The splice loop from index k (1-based) on; `result` is what was added so far.
RECURSIVE SpliceLoop(_, _, _, _, _)
SpliceLoop(ranges, results, multiline, k, result) ==
    IF k > Len(ranges) THEN result
    ELSE SpliceLoop(ranges, results, multiline, k + 1,
             result
             \o (IF k > 1 THEN EmissionBytes(Emission(results[k - 1], multiline[k - 1])) ELSE <<>>)
             \o ranges[k])

SpliceResult(ranges, results, multiline) == SpliceLoop(ranges, results, multiline, 1, <<>>)

\* fprintf(f, "%s", result.CStr()): the bytes of result before its first zero byte.
WrittenFile(result) == CStr(result)

\* fprintf(f, "%.*s\n", Size, Data): the program up to its first zero byte, and LF.
TempFileContents(python_str) == CStr(python_str) \o <<LF>>

----------------------------------------------------------------------------
\* main.cpp: main()

MainFresh ==
    /\ file_data = <<>> /\ remaining = <<>> /\ cur = 0
    /\ ranges_to_keep = <<>> /\ python_strings = <<>>
    /\ python_strings_is_multiline = <<>> /\ python_results = <<>>
    /\ directives = <<>> /\ captured = <<>> /\ emitted = <<>>
    /\ i = 0 /\ temp = <<>> /\ exit_status = "none"
    /\ ranges_from = <<>> /\ exit_code = 0 /\ fault = "none"

PipesIdle == OUT = <<>> /\ ERR = <<>> /\ OUT_Wr = FALSE /\ ERR_Wr = FALSE /\ child = <<>>

UnitIdle == upc = "idle" /\ uarg = <<>> /\ ures = <<>> /\ PipesIdle

Init ==
    /\ pc = "start"
    /\ disk \in Files
    /\ MainFresh
    /\ interp = <<>> /\ runNo = 1 /\ firstWritten = <<>> /\ past_end = FALSE
    /\ UnitIdle

Exit(status) == pc' = "exit" /\ exit_status' = status

\* Lines 32-36: the tool was not given exactly one argument.
BadArguments ==
    /\ pc = "start"
    /\ \E argc \in {1, 3} : argc # 2
    /\ Exit("1")
    /\ fault' = "args"
    /\ UNCHANGED <<disk, file_data, remaining, cur, ranges_to_keep, python_strings,
                   python_strings_is_multiline, python_results, directives, captured,
                   emitted, i, temp, interp, runNo, firstWritten, past_end, unitVars,
                   ranges_from, exit_code>>

\* Lines 40-45 and 52: the file was read.
ReadEntireFile ==
    /\ pc = "start"
    /\ file_data' = disk
    /\ remaining' = disk
    /\ cur' = 0
    /\ pc' = "scan"
    /\ UNCHANGED <<disk, ranges_to_keep, python_strings, python_strings_is_multiline,
                   python_results, directives, captured, emitted, i, temp, exit_status,
                   interp, runNo, firstWritten, past_end, unitVars,
                   ranges_from, exit_code, fault>>

\* Lines 41-45: fopen_s failed.
ReadFails ==
    /\ pc = "start"
    /\ Exit("1")
    /\ fault' = "read"
    /\ UNCHANGED <<disk, file_data, remaining, cur, ranges_to_keep, python_strings,
                   python_strings_is_multiline, python_results, directives, captured,
                   emitted, i, temp, interp, runNo, firstWritten, past_end, unitVars,
                   ranges_from, exit_code>>

\* The search for the opening marker begun one byte behind the cursor.
pyexpand_offset_behind_cursor == Find(remaining, pyexpand_keyword, 1)

pyexpand_offset == Find(remaining, pyexpand_keyword, 0)
end_comment_offset == Find(remaining, EndComment, pyexpand_offset + Len(pyexpand_keyword))
terminator_comment_offset == Find(remaining, BeginComment, end_comment_offset + 2)

\* The effects of one iteration of the scan loop, lines 61-108, with `kept` the
\* range added at line 62.
ScanEffects(kept, past) ==
    LET python_string == Slice(remaining, pyexpand_offset + Len(pyexpand_keyword), end_comment_offset)
    IN  /\ ranges_to_keep' = Append(ranges_to_keep, kept)
        /\ remaining' = Slice(remaining, terminator_comment_offset, Len(remaining))
        /\ cur' = cur + terminator_comment_offset
        /\ python_strings' = Append(python_strings, NewPythonString(python_string))
        /\ python_strings_is_multiline' = Append(python_strings_is_multiline, IsMultiline(python_string))
        /\ directives' = Append(directives,
               [open_start |-> cur + pyexpand_offset,
                body_start |-> cur + pyexpand_offset + Len(pyexpand_keyword),
                body_end |-> cur + end_comment_offset,
                terminator_start |-> cur + terminator_comment_offset,
                body |-> python_string])
        /\ past_end' = (past_end \/ past)
        /\ ranges_from' = Append(ranges_from, cur)
        /\ UNCHANGED <<pc, disk, file_data, python_results, captured, emitted, i, temp,
                       exit_status, interp, runNo, firstWritten, unitVars,
                       exit_code, fault>>

\* Lines 55-108: an opening marker and its closing marker were found.
ScanDirective ==
    /\ pc = "scan"
    /\ pyexpand_offset # Len(remaining)
    /\ SliceOk(remaining, 0, end_comment_offset + 2)
    /\ ScanEffects(Slice(remaining, 0, end_comment_offset + 2), FALSE)

\* Line 62: no closing marker, Slice(0, Size + 2) fails its assertion.
ScanAssertFails ==
    /\ pc = "scan"
    /\ pyexpand_offset # Len(remaining)
    /\ ~SliceOk(remaining, 0, end_comment_offset + 2)
    /\ Exit("abort")
    /\ UNCHANGED <<disk, file_data, remaining, cur, ranges_to_keep, python_strings,
                   python_strings_is_multiline, python_results, directives, captured,
                   emitted, i, temp, interp, runNo, firstWritten, past_end, unitVars,
                   ranges_from, exit_code, fault>>

\* Line 62 without the assertion (NDEBUG): the kept range runs two bytes past
\* the end of the source buffer.
ScanPastEnd ==
    /\ pc = "scan"
    /\ pyexpand_offset # Len(remaining)
    /\ ~SliceOk(remaining, 0, end_comment_offset + 2)
    /\ \E past \in BytesPastEnd : ScanEffects(remaining \o past, TRUE)

\* The scan loop left while an opening marker may still stand in the rest.
ScanBreakAnyTime ==
    /\ pc = "scan"
    /\ ranges_to_keep' = Append(ranges_to_keep, remaining)
    /\ pc' = "run"
    /\ i' = 0
    /\ ranges_from' = Append(ranges_from, cur)
    /\ UNCHANGED <<disk, file_data, remaining, cur, python_strings,
                   python_strings_is_multiline, python_results, directives, captured,
                   emitted, temp, exit_status, interp, runNo, firstWritten, past_end, unitVars,
                   exit_code, fault>>

\* Lines 57-58 and 110: no opening marker is left.
ScanBreak ==
    /\ pc = "scan"
    /\ pyexpand_offset = Len(remaining)
    /\ ranges_to_keep' = Append(ranges_to_keep, remaining)
    /\ pc' = "run"
    /\ i' = 0
    /\ ranges_from' = Append(ranges_from, cur)
    /\ UNCHANGED <<disk, file_data, remaining, cur, python_strings,
                   python_strings_is_multiline, python_results, directives, captured,
                   emitted, temp, exit_status, interp, runNo, firstWritten, past_end, unitVars,
                   exit_code, fault>>

\* Lines 114-119: the temp file could not be created.
TempCreateFails ==
    /\ pc = "run"
    /\ i < Len(python_strings)
    /\ Exit("1")
    /\ fault' = "temp_create"
    /\ UNCHANGED <<disk, file_data, remaining, cur, ranges_to_keep, python_strings,
                   python_strings_is_multiline, python_results, directives, captured,
                   emitted, i, temp, interp, runNo, firstWritten, past_end, unitVars,
                   ranges_from, exit_code>>

\* The spawn failing with the input file already opened for writing.
SpawnFailsAfterOpen ==
    /\ pc = "run"
    /\ i < Len(python_strings)
    /\ temp' = <<TempFileContents(python_strings[i + 1])>>
    /\ disk' = <<>>
    /\ Exit("1")
    /\ fault' = "spawn"
    /\ UNCHANGED <<file_data, remaining, cur, ranges_to_keep, python_strings,
                   python_strings_is_multiline, python_results, directives, captured,
                   emitted, i, interp, runNo, firstWritten, past_end, unitVars,
                   ranges_from, exit_code>>

\* Lines 120-138: the temp file was written, OS_RunConsoleCommand returned false.
SpawnFails ==
    /\ pc = "run"
    /\ i < Len(python_strings)
    /\ temp' = <<TempFileContents(python_strings[i + 1])>>
    /\ Exit("1")
    /\ fault' = "spawn"
    /\ UNCHANGED <<disk, file_data, remaining, cur, ranges_to_keep, python_strings,
                   python_strings_is_multiline, python_results, directives, captured,
                   emitted, i, interp, runNo, firstWritten, past_end, unitVars,
                   ranges_from, exit_code>>

\* The interpreter prints `out` for the program `program`: it is a function of
\* the program, fixed when the program is first run.
Interpreter(program, out) ==
    IF program \in DOMAIN interp
    THEN out = interp[program] /\ UNCHANGED interp
    ELSE interp' = (program :> out) @@ interp

\* The accumulator of an iteration begun with what the iteration before it captured.
ResultCarriedOver(earlier) == IF earlier = <<>> THEN <<>> ELSE earlier[Len(earlier)]

\* Lines 124-131: each iteration has its own PrintCallback, whose Result is
\* initialised empty; `earlier` is what the iterations before it captured.
ResultInit(earlier) == <<>>

\* The run loop writing the first program to the temp file at every iteration.
RunDirectiveFirstProgram ==
    /\ pc = "run"
    /\ i < Len(python_strings)
    /\ \E out \in InterpreterOutputs :
          /\ temp' = <<TempFileContents(python_strings[1])>>
          /\ Interpreter(TempFileContents(python_strings[1]), out)
          /\ captured' = Append(captured, out)
          /\ python_results' = Append(python_results, PythonResult(out))
    /\ exit_code' \in ExitCodes
    /\ i' = i + 1
    /\ UNCHANGED <<pc, disk, file_data, remaining, cur, ranges_to_keep, python_strings,
                   python_strings_is_multiline, directives, emitted, exit_status,
                   runNo, firstWritten, past_end, unitVars, ranges_from, fault>>

\* Lines 114-146: one iteration of the run loop, the interpreter having printed `out`.
RunDirective ==
    /\ pc = "run"
    /\ i < Len(python_strings)
    /\ \E out \in InterpreterOutputs :
          /\ temp' = <<TempFileContents(python_strings[i + 1])>>
          /\ Interpreter(TempFileContents(python_strings[i + 1]), out)
          /\ captured' = Append(captured, ResultInit(captured) \o out)
          /\ python_results' = Append(python_results, PythonResult(ResultInit(captured) \o out))
    /\ exit_code' \in ExitCodes
    /\ i' = i + 1
    /\ UNCHANGED <<pc, disk, file_data, remaining, cur, ranges_to_keep, python_strings,
                   python_strings_is_multiline, directives, emitted, exit_status,
                   runNo, firstWritten, past_end, unitVars, ranges_from, fault>>

\* Lines 114-146 with the write of line 121 failing (its result is not looked
\* at): the temp file is left created and empty, the interpreter runs it, prints
\* nothing and exits with 0. Slice(Size - 2) at line 143 then fails its
\* assertion, or (NDEBUG) the empty result is kept. The second invocation is
\* followed in an environment whose writes to the temp file succeed.
TempWriteFails ==
    /\ pc = "run"
    /\ runNo = 1
    /\ i < Len(python_strings)
    /\ temp' = << <<>> >>
    /\ Interpreter(<<>>, <<>>)
    /\ captured' = Append(captured, <<>>)
    /\ exit_code' = 0
    /\ fault' = "temp_write"
    /\ \/ /\ Exit("abort")
          /\ UNCHANGED <<python_results, i>>
       \/ /\ python_results' = Append(python_results, PythonResult(<<>>))
          /\ i' = i + 1
          /\ UNCHANGED <<pc, exit_status>>
    /\ UNCHANGED <<disk, file_data, remaining, cur, ranges_to_keep, python_strings,
                   python_strings_is_multiline, directives, emitted,
                   runNo, firstWritten, past_end, unitVars, ranges_from>>

\* Line 143: the output has fewer than two bytes and Slice(Size - 2) fails its assertion.
RunAssertFails ==
    /\ pc = "run"
    /\ i < Len(python_strings)
    /\ \E out \in InterpreterOutputs :
          /\ ~TrimAsserts(ResultInit(captured) \o out)
          /\ temp' = <<TempFileContents(python_strings[i + 1])>>
          /\ Interpreter(TempFileContents(python_strings[i + 1]), out)
          /\ captured' = Append(captured, ResultInit(captured) \o out)
    /\ exit_code' \in ExitCodes
    /\ Exit("abort")
    /\ UNCHANGED <<disk, file_data, remaining, cur, ranges_to_keep, python_strings,
                   python_strings_is_multiline, python_results, directives, emitted, i,
                   runNo, firstWritten, past_end, unitVars, ranges_from, fault>>

\* Lines 112 and 149: the run loop is over (and with it the scope of exit_code),
\* OS_DeleteFile.
DeleteTempFile ==
    /\ pc = "run"
    /\ i = Len(python_strings)
    /\ temp' = <<>>
    /\ exit_code' = 0
    /\ pc' = "splice"
    /\ UNCHANGED <<disk, file_data, remaining, cur, ranges_to_keep, python_strings,
                   python_strings_is_multiline, python_results, directives, captured,
                   emitted, i, exit_status, interp, runNo, firstWritten, past_end, unitVars,
                   ranges_from, fault>>

Emissions == [k \in 1..Len(python_results) |->
                 Emission(python_results[k], python_strings_is_multiline[k])]

\* Lines 151-184: the result is assembled and written over the input file.
SpliceAndWrite ==
    /\ pc = "splice"
    /\ emitted' = Emissions
    /\ disk' = WrittenFile(SpliceResult(ranges_to_keep, python_results, python_strings_is_multiline))
    /\ Exit("0")
    /\ UNCHANGED <<file_data, remaining, cur, ranges_to_keep, python_strings,
                   python_strings_is_multiline, python_results, directives, captured,
                   i, temp, interp, runNo, firstWritten, past_end, unitVars,
                   ranges_from, exit_code, fault>>

\* Lines 173-184 with the write of line 179 failing (its result is not looked
\* at): the file was truncated by fopen and nothing was written.
WriteFails ==
    /\ pc = "splice"
    /\ emitted' = Emissions
    /\ disk' = <<>>
    /\ Exit("0")
    /\ fault' = "write"
    /\ UNCHANGED <<file_data, remaining, cur, ranges_to_keep, python_strings,
                   python_strings_is_multiline, python_results, directives, captured,
                   i, temp, interp, runNo, firstWritten, past_end, unitVars,
                   ranges_from, exit_code>>

\* Lines 173-178: the input file could not be opened for writing.
OpenForWriteFails ==
    /\ pc = "splice"
    /\ emitted' = Emissions
    /\ Exit("1")
    /\ fault' = "open_write"
    /\ UNCHANGED <<disk, file_data, remaining, cur, ranges_to_keep, python_strings,
                   python_strings_is_multiline, python_results, directives, captured,
                   i, temp, interp, runNo, firstWritten, past_end, unitVars,
                   ranges_from, exit_code>>

\* The tool is invoked again on the file it has written (main from its start).
RunAgain ==
    /\ pc = "exit"
    /\ exit_status = "0"
    /\ fault = "none"
    /\ runNo = 1
    /\ pc' = "start"
    /\ runNo' = 2
    /\ firstWritten' = <<disk>>
    /\ file_data' = <<>> /\ remaining' = <<>> /\ cur' = 0
    /\ ranges_to_keep' = <<>> /\ python_strings' = <<>>
    /\ python_strings_is_multiline' = <<>> /\ python_results' = <<>>
    /\ directives' = <<>> /\ captured' = <<>> /\ emitted' = <<>>
    /\ i' = 0 /\ temp' = <<>> /\ exit_status' = "none"
    /\ ranges_from' = <<>> /\ exit_code' = 0 /\ fault' = "none"
    /\ UNCHANGED <<disk, interp, past_end, unitVars>>

Next ==
    \/ BadArguments
    \/ ReadEntireFile
    \/ ReadFails
    \/ ScanDirective
    \/ ScanAssertFails
    \/ ScanPastEnd
    \/ ScanBreak
    \/ TempCreateFails
    \/ SpawnFails
    \/ RunDirective
    \/ TempWriteFails
    \/ RunAssertFails
    \/ DeleteTempFile
    \/ SpliceAndWrite
    \/ WriteFails
    \/ OpenForWriteFails
    \/ RunAgain

Spec == Init /\ [][Next]_vars

----------------------------------------------------------------------------
\* The snippet transformer alone, applied to every body within the bounds

MainIdle ==
    /\ pc = "idle" /\ disk = <<>> /\ MainFresh
    /\ interp = <<>> /\ runNo = 0 /\ firstWritten = <<>> /\ past_end = FALSE

InitTransform ==
    /\ MainIdle
    /\ upc = "call" /\ uarg \in Bodies /\ ures = <<>>
    /\ PipesIdle

\* Lines 67-108 for the body uarg.
Transform ==
    /\ upc = "call"
    /\ ures' = [program |-> NewPythonString(uarg), is_multiline |-> IsMultiline(uarg)]
    /\ upc' = "done"
    /\ UNCHANGED <<uarg, pipeVars, mainVars>>

NextTransform == Transform

SpecTransform == InitTransform /\ [][NextTransform]_vars

----------------------------------------------------------------------------
\* Output normalisation alone, applied to every captured output within the bounds

InitNormalize ==
    /\ MainIdle
    /\ upc = "call" /\ uarg \in CapturedOutputs /\ ures = <<>>
    /\ PipesIdle

\* Lines 142-146 for the captured output uarg.
Normalize ==
    /\ upc = "call"
    /\ ures' = PythonResult(uarg)
    /\ upc' = "done"
    /\ UNCHANGED <<uarg, pipeVars, mainVars>>

\* Line 143: Slice(Size - 2) fails its assertion.
NormalizeAssertFails ==
    /\ upc = "call"
    /\ ~TrimAsserts(uarg)
    /\ upc' = "abort"
    /\ UNCHANGED <<uarg, ures, pipeVars, mainVars>>

NextNormalize == Normalize \/ NormalizeAssertFails

SpecNormalize == InitNormalize /\ [][NextNormalize]_vars

----------------------------------------------------------------------------
\* main.cpp: the loops of the scanner and of the transformer, iteration by
\* iteration: the scan loop on every file within the bounds, and the
\* line-splitting loop of either branch of the transformer on every body
\* within the bounds

\* Lines 67-73 and 92-94: python_string is uarg, `lines` starts as the whole of it.
InitLines ==
    /\ MainIdle
    /\ upc = "lines" /\ uarg \in Bodies
    /\ ures = [lines |-> uarg, lines_count |-> 0,
               new_python_string |-> IF IsMultiline(uarg) THEN DefLine ELSE <<>>]
    /\ PipesIdle

\* Lines 40-52 for the files the scan loop is followed on by itself: those
\* made of markers and of one other byte.
LoopFiles == TokenStrings({pyexpand_keyword \o EndComment, pyexpand_keyword, EndComment,
                           BeginComment, <<"a">>}, MaxTok)

InitScan ==
    /\ pc = "start"
    /\ disk \in LoopFiles
    /\ MainFresh
    /\ interp = <<>> /\ runNo = 1 /\ firstWritten = <<>> /\ past_end = FALSE
    /\ UnitIdle

InitLoops == InitScan \/ InitLines

\* Lines 74-87 and 95-99: one iteration of `while (lines.Size > 0)`.
SplitLine ==
    /\ upc = "lines"
    /\ Len(ures.lines) > 0
    /\ LET sp == Split(ures.lines, <<LF>>)
       IN  ures' = IF IsMultiline(uarg)
                   THEN [ures EXCEPT !.lines = sp.rest,
                                     !.new_python_string = @ \o IndentedLine(StripCR(sp.result))]
                   ELSE [ures EXCEPT !.lines = sp.rest,
                                     !.lines_count = @ + 1]
    /\ UNCHANGED <<upc, uarg, pipeVars, mainVars>>

\* Lines 74, 88 and 95, 100-104: `lines` is empty, the loop is left and the
\* program is completed.
LinesEnd ==
    /\ upc = "lines"
    /\ Len(ures.lines) = 0
    /\ ures' = [ures EXCEPT !.new_python_string =
                    IF IsMultiline(uarg) THEN @ \o PrintUserFn
                    ELSE IF ures.lines_count <= 1
                         THEN PrintOpen \o CStr(uarg) \o PrintClose
                         ELSE NoReturnError]
    /\ upc' = "done"
    /\ UNCHANGED <<uarg, pipeVars, mainVars>>

NextLoops ==
    \/ ReadEntireFile
    \/ ScanDirective
    \/ ScanAssertFails
    \/ ScanPastEnd
    \/ ScanBreak
    \/ SplitLine
    \/ LinesEnd

\* The program is sequential: a loop that can take its next iteration takes it.
SpecLoops == InitLoops /\ [][NextLoops]_vars /\ WF_vars(NextLoops)

----------------------------------------------------------------------------
\* ds.cpp: DS_StringView::Find alone, for every call within the bounds

InitFind ==
    /\ MainIdle
    /\ upc = "call" /\ uarg \in FindCalls /\ ures = <<>>
    /\ PipesIdle

\* Lines 65-82: the assertion holds, the loop runs.
FindReturns ==
    /\ upc = "call"
    /\ FindOk(uarg.s, uarg.start_from)
    /\ ures' = <<Find(uarg.s, uarg.other, uarg.start_from)>>
    /\ upc' = "done"
    /\ UNCHANGED <<uarg, pipeVars, mainVars>>

\* Line 67: start_from is past the end of the view, the assertion fails.
FindAssertFails ==
    /\ upc = "call"
    /\ ~FindOk(uarg.s, uarg.start_from)
    /\ upc' = "abort"
    /\ UNCHANGED <<uarg, ures, pipeVars, mainVars>>

\* Line 67 without the assertion (NDEBUG): ptr starts behind `end`, the loop
\* body is not entered.
FindPastEnd ==
    /\ upc = "call"
    /\ ~FindOk(uarg.s, uarg.start_from)
    /\ ures' = <<Find(uarg.s, uarg.other, uarg.start_from)>>
    /\ upc' = "done"
    /\ UNCHANGED <<uarg, pipeVars, mainVars>>

NextFind == FindReturns \/ FindAssertFails \/ FindPastEnd

SpecFind == InitFind /\ [][NextFind]_vars

----------------------------------------------------------------------------
\* win32_utils.cpp: OS_RunConsoleCommand from the spawn on, with the child
\* process, for every script within the bounds

\* Lines 34-48 and main.cpp line 128: the pipes are created, the parent holds
\* both ends of each, the accumulator is empty; no child yet.
InitDrain ==
    /\ MainIdle
    /\ uarg \in Scripts
    /\ upc = "spawn" /\ ures = <<>>
    /\ OUT = <<>> /\ ERR = <<>>
    /\ OUT_Wr = TRUE /\ ERR_Wr = TRUE
    /\ child = [todo |-> uarg, started |-> FALSE, exited |-> FALSE]

\* Line 50: CreateProcessW starts the child, which inherits the write ends as
\* its stdout and stderr.
CreateProcess ==
    /\ upc = "spawn"
    /\ child' = [child EXCEPT !.started = TRUE]
    /\ upc' = "close"
    /\ UNCHANGED <<uarg, ures, OUT, ERR, OUT_Wr, ERR_Wr, mainVars>>

\* Line 50: CreateProcessW fails, ok is false and there is no child.
CreateProcessFails ==
    /\ upc = "spawn"
    /\ upc' = "close_not_ok"
    /\ UNCHANGED <<uarg, ures, pipeVars, mainVars>>

\* The parent's handles kept open behind the spawn.
CloseWriteEndsForgotten ==
    /\ upc \in {"close", "close_not_ok"}
    /\ upc' = IF upc = "close" THEN "drain_out" ELSE "returned_false"
    /\ UNCHANGED <<uarg, ures, pipeVars, mainVars>>

\* Lines 54-57 (and 87-89 when ok is false): the parent closes its handles of
\* the write ends, whether or not the spawn succeeded.
CloseWriteEnds ==
    /\ upc \in {"close", "close_not_ok"}
    /\ OUT_Wr' = FALSE /\ ERR_Wr' = FALSE
    /\ upc' = IF upc = "close" THEN "drain_out" ELSE "returned_false"
    /\ UNCHANGED <<uarg, ures, OUT, ERR, child, mainVars>>

\* Somebody holds a write end of the pipes: the parent through its handle, or
\* the running child.
WriteEndOpen(parent_handle) == parent_handle \/ (child.started /\ ~child.exited)

\* main.cpp lines 129-131: Result.Addf("%s", message) adds the bytes of the
\* chunk before its first zero byte.
PrintCallback(Result, message) == Result \o CStr(message)

\* The child writes the next byte of its script; the write blocks while the
\* pipe is full.
ChildWrite ==
    /\ child.started
    /\ ~child.exited
    /\ child.todo # <<>>
    /\ LET w == Head(child.todo)
       IN  /\ IF w.to = "out"
              THEN Len(OUT) < PipeCapacity /\ OUT' = Append(OUT, w.byte) /\ UNCHANGED ERR
              ELSE Len(ERR) < PipeCapacity /\ ERR' = Append(ERR, w.byte) /\ UNCHANGED OUT
    /\ child' = [child EXCEPT !.todo = Tail(child.todo)]
    /\ UNCHANGED <<upc, uarg, ures, OUT_Wr, ERR_Wr, mainVars>>

\* The child has written everything and exits: its write ends are closed.
ChildExit ==
    /\ child.started
    /\ ~child.exited
    /\ child.todo = <<>>
    /\ child' = [child EXCEPT !.exited = TRUE]
    /\ UNCHANGED <<upc, uarg, ures, OUT, ERR, OUT_Wr, ERR_Wr, mainVars>>

\* Lines 64-69: ReadFile on OUT_Rd returns some of the bytes in the pipe (it
\* blocks while the pipe is empty and a write end is open); the chunk is printed.
ReadStdout ==
    /\ upc = "drain_out"
    /\ \E n \in 1..Len(OUT) :
          /\ ures' = PrintCallback(ures, SubSeq(OUT, 1, n))
          /\ OUT' = SubSeq(OUT, n + 1, Len(OUT))
    /\ UNCHANGED <<upc, uarg, ERR, OUT_Wr, ERR_Wr, child, mainVars>>

\* Line 65: ReadFile fails, the pipe being empty and nobody holding its write end.
StdoutEnds ==
    /\ upc = "drain_out"
    /\ OUT = <<>> /\ ~WriteEndOpen(OUT_Wr)
    /\ upc' = "drain_err"
    /\ UNCHANGED <<uarg, ures, pipeVars, mainVars>>

\* Lines 70-75: the same loop on ERR_Rd.
ReadStderr ==
    /\ upc = "drain_err"
    /\ \E n \in 1..Len(ERR) :
          /\ ures' = PrintCallback(ures, SubSeq(ERR, 1, n))
          /\ ERR' = SubSeq(ERR, n + 1, Len(ERR))
    /\ UNCHANGED <<upc, uarg, OUT, OUT_Wr, ERR_Wr, child, mainVars>>

\* Line 71: ReadFile fails, the pipe being empty and nobody holding its write end.
StderrEnds ==
    /\ upc = "drain_err"
    /\ ERR = <<>> /\ ~WriteEndOpen(ERR_Wr)
    /\ upc' = "wait"
    /\ UNCHANGED <<uarg, ures, pipeVars, mainVars>>

\* Lines 78-89: WaitForSingleObject returns once the child has exited, and
\* OS_RunConsoleCommand returns.
WaitForChild ==
    /\ upc = "wait"
    /\ child.exited
    /\ upc' = "returned"
    /\ UNCHANGED <<uarg, ures, pipeVars, mainVars>>

NextDrain ==
    \/ CreateProcess
    \/ CreateProcessFails
    \/ CloseWriteEnds
    \/ ChildWrite
    \/ ChildExit
    \/ ReadStdout
    \/ StdoutEnds
    \/ ReadStderr
    \/ StderrEnds
    \/ WaitForChild

SpecDrain == InitDrain /\ [][NextDrain]_vars

----------------------------------------------------------------------------
\* Notions the properties are stated in, defined without the operators above

\* pat occurs in s at offset pos (0-based), wholly inside s.
At(s, pos, pat) ==
    /\ pos >= 0
    /\ pos + Len(pat) <= Len(s)
    /\ \A j \in 1..Len(pat) : s[pos + j] = pat[j]

Occurs(s, pat) == \E pos \in 0..Len(s) : At(s, pos, pat)

Least(S) == CHOOSE x \in S : \A y \in S : x <= y

\* The output with one trailing CR LF removed, if it ends so.
Trimmed(out) ==
    IF Len(out) >= 2 /\ out[Len(out) - 1] = CR /\ out[Len(out)] = LF
    THEN [j \in 1..(Len(out) - 2) |-> out[j]]
    ELSE out

\* The longest leading run of SPACE / TAB bytes of s.
LeadingBlanks(s) ==
    LET n == CHOOSE m \in 0..Len(s) :
                 /\ \A j \in 1..m : s[j] \in {SP, TAB}
                 /\ (m < Len(s) => s[m + 1] \notin {SP, TAB})
    IN  [j \in 1..n |-> s[j]]

\* The bytes of s before its first zero byte.
BeforeZero(s) ==
    LET zeros == {j \in 1..Len(s) : s[j] = NUL}
    IN  IF zeros = {} THEN s ELSE [j \in 1..(Least(zeros) - 1) |-> s[j]]

\* The lines of s: the pieces between its LF bytes, in order (the piece after a
\* final LF is the empty line).
LineStarts(s) == {1} \cup {j + 1 : j \in {k \in 1..Len(s) : s[k] = LF}}

LineFrom(s, a) ==
    LET ends == {k \in a..Len(s) : s[k] = LF}
        last == IF ends = {} THEN Len(s) ELSE Least(ends) - 1
    IN  [j \in 1..(last - a + 1) |-> s[a + j - 1]]

RECURSIVE InOrder(_)
InOrder(S) == IF S = {} THEN <<>> ELSE <<Least(S)>> \o InOrder(S \ {Least(S)})

Lines(s) == LET starts == InOrder(LineStarts(s))
            IN  [n \in 1..Len(starts) |-> LineFrom(s, starts[n])]

WithoutTrailingCR(line) ==
    IF line # <<>> /\ line[Len(line)] = CR THEN [j \in 1..(Len(line) - 1) |-> line[j]] ELSE line

NonEmptyLines(s) == SelectSeq([n \in 1..Len(Lines(s)) |-> WithoutTrailingCR(Lines(s)[n])],
                              LAMBDA l : l # <<>>)

\* The run read its file, ran every program and wrote the file.
Finished == pc = "exit" /\ exit_status = "0" /\ fault = "none"

----------------------------------------------------------------------------
\* Properties

\* C1: a file without the marker /*.py is left byte-identical by a run that
\* reads and writes it successfully, whatever bytes it holds.
C1_NoDirectiveFileUnchanged ==
    (Finished /\ ~Occurs(file_data, pyexpand_keyword)) => disk = file_data

\* The kept ranges as ranges of the source buffer: from the cursor (0, then each
\* terminator) to the end of the next closing marker, and the tail.
SourceRange(k) ==
    LET lo == IF k = 1 THEN 0 ELSE directives[k - 1].terminator_start
        hi == IF k <= Len(directives) THEN directives[k].body_end + 2 ELSE Len(file_data)
    IN  [j \in 1..(hi - lo) |-> file_data[lo + j]]

RECURSIVE Interleaved(_)
Interleaved(k) ==
    IF k > Len(directives) + 1 THEN <<>>
    ELSE (IF k > 1 THEN EmissionBytes(emitted[k - 1]) ELSE <<>>) \o SourceRange(k) \o Interleaved(k + 1)

AllClosed == \A k \in 1..Len(directives) : directives[k].body_end + 2 <= Len(file_data)

\* C3: the written file holds every kept range as a byte-for-byte copy of its
\* range of the source buffer, in source order, between the emitted expansions,
\* whatever bytes the source holds (zero bytes included).
C3_KeptRangesCopied ==
    (Finished /\ AllClosed) => disk = Interleaved(1)

\* The expansion the claim expects for directive k.
ExpectedRegion(k) ==
    LET sep == IF Occurs(directives[k].body, ReturnKeyword) THEN <<LF>> ELSE <<SP>>
    IN  sep \o Trimmed(captured[k]) \o sep \o emitted[k].indent

\* Offset in the written file just behind the closing marker of directive k.
RECURSIVE RegionStart(_)
RegionStart(k) ==
    Len(ranges_to_keep[k]) + (IF k = 1 THEN 0 ELSE RegionStart(k - 1) + Len(ExpectedRegion(k - 1)))

\* C2: in the written file the bytes between a directive's closing */ and the
\* /* that terminates it are sep + trimmed output + sep + indent prefix, with
\* sep one LF for a multi-statement directive and one space otherwise.
C2_ExpansionRegion ==
    Finished =>
        \A k \in 1..Len(directives) :
            directives[k].body_end + 2 <= Len(file_data) =>
                /\ At(disk, RegionStart(k) - 2, EndComment)
                /\ At(disk, RegionStart(k), ExpectedRegion(k))
                /\ IF directives[k].terminator_start < Len(file_data)
                   THEN At(disk, RegionStart(k) + Len(ExpectedRegion(k)), BeginComment)
                   ELSE Len(disk) = RegionStart(k) + Len(ExpectedRegion(k))

\* C4: with the interpreter a fixed function of the program, a second run on the
\* file the first run wrote writes the same bytes again (both runs staying
\* inside their source buffers).
C4_SecondRunWritesSame ==
    (Finished /\ runNo = 2 /\ ~past_end) => disk = firstWritten[1]

\* C5: a body is classified multi-statement exactly when `return` occurs in it.
C5_MultilineIffReturn ==
    upc = "done" => (ures.is_multiline <=> Occurs(uarg, ReturnKeyword))

C5_Witness ==
    /\ upc = "done" /\ ures.is_multiline
    /\ ~At(uarg, 0, ReturnKeyword) /\ At(uarg, Len(uarg) - 6, ReturnKeyword)

C5_WitnessShort ==
    upc = "done" /\ ~ures.is_multiline /\ Len(uarg) < 6 /\ uarg # <<>>

\* C6 as claimed: without `return`, the error statement replaces the program
\* exactly when the body has two or more non-empty lines (empty lines not
\* counted, a trailing CR ignored).
C6_ErrorIffTwoNonEmptyLines ==
    (upc = "done" /\ ~Occurs(uarg, ReturnKeyword)) =>
        (ures.program = NoReturnError <=> Len(NonEmptyLines(uarg)) >= 2)

\* C6 as the code has it: without `return`, the error statement replaces the
\* program exactly when an LF occurs before the last byte of the body (the body
\* splits on LF into two or more pieces, empty ones counted, CR not looked at);
\* otherwise the program is print( + the body up to its first zero byte + ) LF.
C6_ErrorIffLineFeedInside ==
    (upc = "done" /\ ~Occurs(uarg, ReturnKeyword)) =>
        IF \E j \in 1..(Len(uarg) - 1) : uarg[j] = LF
        THEN ures.program = NoReturnError
        ELSE ures.program = PrintOpen \o BeforeZero(uarg) \o PrintClose

\* One non-empty line among empty ones, and the error statement all the same.
C6_Witness ==
    /\ upc = "done" /\ ~ures.is_multiline
    /\ Len(NonEmptyLines(uarg)) = 1
    /\ ures.program = NoReturnError

\* The body lines the wrapper holds: each non-empty line, without one trailing
\* CR, behind one TAB unless it begins with TAB or SPACE, and LF.
RECURSIVE WrappedLines(_)
WrappedLines(ls) ==
    IF ls = <<>> THEN <<>>
    ELSE (IF Head(ls)[1] \in {TAB, SP} THEN <<>> ELSE <<TAB>>) \o Head(ls) \o <<LF>>
         \o WrappedLines(Tail(ls))

\* The program between its first line and its last line.
WrapperBody(program) ==
    [j \in 1..(Len(program) - Len(DefLine) - Len(PrintUserFn)) |-> program[Len(DefLine) + j]]

\* C7: for a body with `return` the program is the def line, the wrapped body
\* lines in body order, and the print line; every body line of the program is
\* non-empty and begins with TAB or SPACE.
C7_WrapperProgram ==
    (upc = "done" /\ Occurs(uarg, ReturnKeyword)) =>
        /\ ures.program = DefLine \o WrappedLines(NonEmptyLines(uarg)) \o PrintUserFn
        /\ \A a \in LineStarts(WrapperBody(ures.program)) :
              a <= Len(WrapperBody(ures.program)) =>
                  /\ LineFrom(WrapperBody(ures.program), a) # <<>>
                  /\ LineFrom(WrapperBody(ures.program), a)[1] \in {TAB, SP}

\* A body whose lines need a TAB, keep their own indentation, end in CR, or are empty.
C7_Witness ==
    /\ upc = "done" /\ ures.is_multiline
    /\ Occurs(uarg, <<CR, LF>>)
    /\ Occurs(ures.program, <<LF, TAB, "r">>)

\* C8: normalisation is total: it removes one trailing CR LF when there is one,
\* leaves every other output as it is, and never aborts.
C8_NormalizeTotal ==
    /\ upc # "abort"
    /\ upc = "done" => ures = Trimmed(uarg)

\* The first non-empty line of the program text.
FirstNonEmptyLine(program) ==
    LET ls == SelectSeq(Lines(program), LAMBDA l : l # <<>>)
    IN  IF ls = <<>> THEN <<>> ELSE ls[1]

ScanAborted == pc = "exit" /\ exit_status = "abort" /\ Len(ranges_to_keep) = Len(python_strings)

\* The scan loop was left and the tail range added (line 110).
ScanOver == Len(ranges_to_keep) = Len(python_strings) + 1

\* C10: an opening marker with no closing */ behind it does not abort the scan,
\* yields no directive, and leaves the bytes from the cursor to the end of the
\* file as the final kept range.
C10_UnclosedMarkerKept ==
    /\ ~ScanAborted
    /\ AllClosed
    /\ ScanOver => ranges_to_keep[Len(ranges_to_keep)] = SourceRange(Len(directives) + 1)

\* Directive k has its closing marker inside the source buffer.
Closed(k) == directives[k].body_end + 2 <= Len(file_data)

\* A /* occurs at or behind the byte after the closing marker of directive k.
Terminated(k) ==
    \E pos \in (directives[k].body_end + 2)..Len(file_data) : At(file_data, pos, BeginComment)

\* Byte p of the source buffer lies in a kept range.
InKeptRange(p) ==
    \E k \in 1..Len(ranges_to_keep) :
        ranges_from[k] <= p /\ p < ranges_from[k] + Len(ranges_to_keep[k])

\* Byte p lies between the closing marker and the terminator of directive k.
InRegion(p, k) == directives[k].body_end + 2 <= p /\ p < directives[k].terminator_start

\* C11: a directive with its closing */ but no /* at or behind the byte after
\* it yields no directive (so no program and no interpreter run), and every
\* byte of the source outside the regions of terminated directives is kept.
C11_UnterminatedNotEmitted ==
    /\ \A k \in 1..Len(directives) : Closed(k) => Terminated(k)
    /\ (ScanOver /\ AllClosed) =>
           \A p \in 0..(Len(file_data) - 1) :
               (\A k \in 1..Len(directives) : Terminated(k) => ~InRegion(p, k)) => InKeptRange(p)

\* C12: an interpreter run that ends with a non-zero exit code is not fatal:
\* with no operation of the environment failing and the scan inside the source
\* buffer, its output is collected like any other, the run loop goes on, and
\* the tool does not end with a status other than 0.
C12_NonZeroExitNotFatal ==
    /\ (pc = "run" /\ exit_code # 0) =>
           /\ Len(python_results) = i
           /\ python_results[i] = Trimmed(captured[i])
    /\ (pc = "exit" /\ fault = "none" /\ ~past_end /\ exit_code # 0) => exit_status = "0"

\* C13: a run in which an operation of the environment failed (argument count,
\* reading the input file, creating or writing the temp file, spawning the
\* interpreter, opening or writing the output file) ends with status 1, never
\* with status 0.
C13_FaultsExitWithOne ==
    (pc = "exit" /\ fault # "none") => exit_status = "1"

\* C14: whenever the tool returns from main, with status 0 or 1 (the scan
\* having stayed inside the source buffer), the temp file __pyexpand_temp.py
\* does not exist.
C14_TempFileDeleted ==
    (pc = "exit" /\ exit_status \in {"0", "1"} /\ ~past_end) => temp = <<>>

\* The bytes a script writes to one stream, in order.
RECURSIVE WrittenTo(_, _)
WrittenTo(script, stream) ==
    IF script = <<>> THEN <<>>
    ELSE (IF Head(script).to = stream THEN <<Head(script).byte>> ELSE <<>>)
         \o WrittenTo(Tail(script), stream)

\* C15: when OS_RunConsoleCommand returns, the accumulator holds all bytes the
\* child wrote to stdout, in order, then all bytes it wrote to stderr, in
\* order, whatever the chunks of the reads and the order of the child's writes.
C15_StdoutThenStderr ==
    upc = "returned" => ures = WrittenTo(uarg, "out") \o WrittenTo(uarg, "err")

\* The parent is blocked reading the empty stdout pipe of a running child, and
\* the child is blocked writing to the full stderr pipe.
PipeDeadlock ==
    /\ upc = "drain_out" /\ OUT = <<>>
    /\ ~child.exited /\ child.todo # <<>>
    /\ Head(child.todo).to = "err" /\ Len(ERR) = PipeCapacity

\* C16: with pipes of bounded capacity the parent is never blocked reading one
\* pipe while the child is blocked writing to the other, full pipe.
C16_NoPipeDeadlock == ~PipeDeadlock

\* The offsets of directive d are ordered and its three markers are in place.
WellFormed(d) ==
    /\ 0 <= d.open_start
    /\ d.open_start < d.body_start
    /\ d.body_start = d.open_start + 5
    /\ d.body_start <= d.body_end
    /\ d.body_end < d.terminator_start
    /\ d.terminator_start < Len(file_data)
    /\ At(file_data, d.open_start, pyexpand_keyword)
    /\ At(file_data, d.body_end, EndComment)
    /\ At(file_data, d.terminator_start, BeginComment)

\* C17: every directive the scanner emits (while it stays inside the source
\* buffer) has 0 <= open_start < body_start = open_start + 5 <= body_end <
\* terminator_start < N, with /*.py at open_start, */ at body_end and /* at
\* terminator_start.
C17_DirectiveWellFormed ==
    ~past_end => \A k \in 1..Len(directives) : WellFormed(directives[k])

\* Kept range k as the half-open range of offsets [RangeLo(k), RangeHi(k)).
RangeLo(k) == ranges_from[k]

RangeHi(k) == ranges_from[k] + Len(ranges_to_keep[k])

\* C18: when the scan is over, the kept ranges number one more than the
\* directives, are pairwise disjoint and in increasing offset order, the first
\* starts at 0, the last ends at N, and the bytes of the source in no kept
\* range are exactly those of the regions [body_end + 2, terminator_start) of
\* the emitted directives.
C18_KeptRangesPartition ==
    ScanOver =>
        /\ Len(ranges_to_keep) = Len(directives) + 1
        /\ RangeLo(1) = 0
        /\ RangeHi(Len(ranges_to_keep)) = Len(file_data)
        /\ \A k \in 1..Len(ranges_to_keep) : RangeLo(k) <= RangeHi(k)
        /\ \A k \in 1..(Len(ranges_to_keep) - 1) : RangeHi(k) <= RangeLo(k + 1)
        /\ \A p \in 0..(Len(file_data) - 1) :
               ~InKeptRange(p) <=> \E k \in 1..Len(directives) : InRegion(p, k)

\* C19: directives are emitted in strictly increasing open_start order and do
\* not overlap: a directive ends (terminator_start) at or before the
\* open_start of the next, with equality exactly when the terminating /* is the
\* start of a marker /*.py; the cursor stands at the last terminator_start.
C19_DirectivesInOrder ==
    /\ \A k \in 1..(Len(directives) - 1) :
          /\ directives[k].open_start < directives[k + 1].open_start
          /\ directives[k].terminator_start <= directives[k + 1].open_start
          /\ directives[k].terminator_start = directives[k + 1].open_start
                 <=> At(file_data, directives[k].terminator_start, pyexpand_keyword)
    /\ Len(directives) > 0 => cur = directives[Len(directives)].terminator_start

\* Three directives: the second opens at the terminator of the first, the
\* third opens behind the terminator of the second.
C19_Witness ==
    /\ ScanOver /\ ~past_end /\ AllClosed /\ Len(directives) = 3
    /\ directives[1].terminator_start = directives[2].open_start
    /\ directives[2].terminator_start < directives[3].open_start

\* The last byte of a program text.
LastByte(program) == program[Len(program)]

\* C20 as claimed: every program the transformer produces ends with LF.
C20_ProgramEndsWithLF ==
    upc = "done" => (ures.program # <<>> /\ LastByte(ures.program) = LF)

\* C20 as the code has it: the print( ) form and the def user_fn() wrapper
\* form end with LF; the error statement, produced for a body without `return`
\* that has an LF before its last byte, ends with `)` and has no LF at all.
C20_EndsWithLFUnlessError ==
    upc = "done" =>
        /\ ures.program # <<>>
        /\ IF ~Occurs(uarg, ReturnKeyword) /\ \E j \in 1..(Len(uarg) - 1) : uarg[j] = LF
           THEN LastByte(ures.program) = ")" /\ ~Occurs(ures.program, <<LF>>)
           ELSE LastByte(ures.program) = LF

\* The error statement produced, and no LF behind it.
C20_Witness ==
    /\ upc = "done"
    /\ At(ures.program, 0, PrintOpen \o <<"'", "E", "r", "r", "o", "r">>)
    /\ LastByte(ures.program) # LF

\* C21: the parent holds no write end while it reads (it closed its handles
\* behind the spawn attempt, which found them open), so the running child is
\* the only holder, and a drain loop can end as soon as the child has exited
\* and the pipe is empty.
C21_WriteEndsClosedBeforeReads ==
    /\ upc = "spawn" => (OUT_Wr /\ ERR_Wr)
    /\ upc \in {"drain_out", "drain_err", "returned_false"} => (~OUT_Wr /\ ~ERR_Wr)
    /\ upc \in {"drain_out", "drain_err"} => child.started
    /\ (upc = "drain_out" /\ OUT = <<>> /\ child.exited) => ENABLED StdoutEnds
    /\ (upc = "drain_err" /\ ERR = <<>> /\ child.exited) => ENABLED StderrEnds

\* The parent has read what the child wrote to stdout, the child has exited,
\* and the read that ends the loop is due.
C21_Witness ==
    /\ upc = "drain_out" /\ OUT = <<>> /\ child.exited
    /\ ures # <<>> /\ ~OUT_Wr

\* C22 as stated: directive k + 1 is scanned and transformed only when the
\* output of directive k has been collected.
C22_OneDirectiveAtATime == Len(directives) <= Len(captured) + 1

\* C22 as the code has it: the scan loop scans and transforms every directive
\* of the file before the first temp file is written, and the run loop then
\* runs the programs one by one in source order, each one collected before the
\* next is started.
C22_ScanAllThenRunInOrder ==
    /\ pc \in {"start", "scan"} =>
          /\ captured = <<>> /\ python_results = <<>> /\ temp = <<>>
          /\ Len(python_strings) = Len(directives)
    /\ pc \in {"run", "splice"} =>
          /\ ~Occurs(remaining, pyexpand_keyword)
          /\ Len(python_strings) = Len(directives)
          /\ Len(ranges_to_keep) = Len(directives) + 1
          /\ Len(captured) = i /\ Len(python_results) = i
          /\ i <= Len(directives)
    /\ pc = "splice" => i = Len(directives)

\* Two directives were scanned and transformed, and only the first has run.
C22_Witness ==
    /\ pc = "run" /\ ~past_end
    /\ Len(directives) = 2 /\ Len(python_strings) = 2
    /\ Len(captured) = 1 /\ i = 1

\* The output of the interpreter run on the temp file written from `program`,
\* if that run has happened.
HasRun(program) == TempFileContents(program) \in DOMAIN interp
OutputOf(program) == interp[TempFileContents(program)]

\* C23: when the splicer starts there is one result, one program and one
\* is_multiline flag per emitted directive and one kept range more; the k-th
\* program is the one generated from the body of the k-th directive in source
\* order, and the k-th result is the (normalised) output of the run of that
\* program, when every write to the temp file succeeded.
C23_OneResultPerDirective ==
    pc = "splice" =>
        /\ Len(python_results) = Len(directives)
        /\ Len(python_strings) = Len(directives)
        /\ Len(python_strings_is_multiline) = Len(directives)
        /\ Len(ranges_to_keep) = Len(directives) + 1
        /\ \A k \in 1..Len(directives) :
              /\ python_strings[k] = NewPythonString(directives[k].body)
              /\ python_strings_is_multiline[k] = IsMultiline(directives[k].body)
              /\ k > 1 => directives[k - 1].open_start < directives[k].open_start
              /\ python_results[k] = PythonResult(captured[k])
              /\ fault = "none" =>
                    /\ HasRun(python_strings[k])
                    /\ captured[k] = OutputOf(python_strings[k])

\* The splicer starts with two directives of different programs whose runs
\* gave different results.
C23_Witness ==
    /\ pc = "splice" /\ fault = "none" /\ ~past_end
    /\ Len(directives) = 2
    /\ python_strings[1] # python_strings[2]
    /\ python_results[1] # python_results[2]

\* The index (from 1) of the directive whose program the temp file was last
\* written for.
LastSpawnedFor == IF fault = "spawn" THEN Len(captured) + 1 ELSE Len(captured)

\* C24: when the interpreter is spawned for a directive (or its spawn is
\* attempted), the temp file holds the Program Text of that directive followed
\* by one LF, and nothing else.
C24_TempHoldsProgramAndLF ==
    (temp # <<>> /\ fault \in {"none", "spawn"} /\ ~past_end) =>
        temp[1] = python_strings[LastSpawnedFor] \o <<LF>>

\* The indices from start_from on at which `other` stands wholly inside s.
OccurrencesFrom(s, other, start_from) ==
    {p \in start_from..Len(s) : At(s, p, other)}

\* C25: for 0 <= start_from <= Size, Find returns the least index at or
\* behind start_from where `other` occurs wholly inside the view, and Size
\* when there is none.
C25_FindLeftmost ==
    (upc = "done" /\ FindOk(uarg.s, uarg.start_from)) =>
        LET hits == OccurrencesFrom(uarg.s, uarg.other, uarg.start_from)
        IN  ures[1] = IF hits = {} THEN Len(uarg.s) ELSE Least(hits)

\* A search begun behind an occurrence of the pattern found a later one.
C25_Witness ==
    /\ upc = "done"
    /\ uarg.start_from > 0 /\ uarg.other # <<>>
    /\ At(uarg.s, 0, uarg.other)
    /\ ures[1] > uarg.start_from /\ ures[1] < Len(uarg.s)

\* The bytes written by the child that the step spawned: the interpreter's
\* output for the temp file of program k, or for the empty file that a failed
\* write left in its place.
WrittenByChild(k, bytes) ==
    \/ /\ TempFileContents(python_strings[k]) \in DOMAIN interp'
       /\ bytes = interp'[TempFileContents(python_strings[k])]
    \/ /\ <<>> \in DOMAIN interp'
       /\ bytes = interp'[<<>>]

\* A step that finds a directive takes its body from the bytes of the file
\* between its markers and generates its program from that body alone; a step
\* that runs a program captures what the child it spawned wrote and nothing
\* else, and cuts the result from that; no step touches the program, the
\* captured bytes or the result of another directive, and the interpreter's
\* output for a program does not change.
C26_EachDirectiveByItself ==
    /\ Len(directives') = Len(directives) + 1 =>
          LET d == directives'[Len(directives')]
          IN  /\ directives' = Append(directives, d)
              /\ d.body = SubSeq(file_data, d.body_start + 1,
                                 IF d.body_end <= Len(file_data)
                                 THEN d.body_end ELSE Len(file_data))
              /\ python_strings' = Append(python_strings, NewPythonString(d.body))
    /\ Len(directives') = Len(directives) =>
          /\ directives' = directives
          /\ python_strings' = python_strings
    /\ Len(captured') = Len(captured) + 1 =>
          LET bytes == captured'[Len(captured')]
          IN  /\ captured' = Append(captured, bytes)
              /\ WrittenByChild(Len(captured'), bytes)
    /\ Len(captured') = Len(captured) => captured' = captured
    /\ Len(python_results') = Len(python_results) + 1 =>
          python_results' = Append(python_results,
                                   PythonResult(captured'[Len(python_results')]))
    /\ Len(python_results') = Len(python_results) => python_results' = python_results
    /\ \A program \in DOMAIN interp :
          program \in DOMAIN interp' /\ interp'[program] = interp[program]

\* When the splicer starts after a run without a fault, directives with the
\* same body have the same program and the same result.
C26_SameBodySameResult ==
    (pc = "splice" /\ fault = "none") =>
        \A j, k \in 1..Len(directives) :
            directives[j].body = directives[k].body =>
                /\ python_strings[j] = python_strings[k]
                /\ python_results[j] = python_results[k]

\* C26: what is captured for a directive is what the child spawned for it
\* wrote, with no byte captured for another directive, and its program is
\* generated from the bytes of its own body alone: program and result of a
\* directive are functions of its body, so two directives with the same body
\* have the same program and the same result whatever the others are.
C26_NoFeedbackBetweenDirectives ==
    /\ [][C26_EachDirectiveByItself]_vars
    /\ []C26_SameBodySameResult

\* Two directives have run, the first with a non-empty output, and the
\* second has a different one.
C26_Witness ==
    /\ pc = "run" /\ fault = "none" /\ ~past_end
    /\ Len(captured) = 2
    /\ captured[1] # <<>>
    /\ captured[2] # captured[1]
    /\ directives[1].body # directives[2].body

\* C27: when the run ends because the temp file could not be created or the
\* interpreter could not be spawned, at whichever directive, its status is 1,
\* the input file holds the bytes that were read from it and nothing was
\* emitted to it, only the directives before the failing one have run, and
\* the run takes no further step.
C27_FatalRunLeavesFile ==
    (pc = "exit" /\ fault \in {"temp_create", "spawn"}) =>
        /\ exit_status = "1"
        /\ disk = file_data
        /\ runNo = 2 => disk = firstWritten[1]
        /\ emitted = <<>>
        /\ i < Len(python_strings)
        /\ Len(captured) = i /\ Len(python_results) = i
        /\ ~ENABLED Next

\* The spawn failed at the second directive, the first having run.
C27_Witness ==
    /\ pc = "exit" /\ exit_status = "1" /\ fault = "spawn" /\ ~past_end
    /\ i = 1 /\ Len(directives) = 2
    /\ disk # <<>>

\* The cursor where the iteration that found directive k began.
CursorBefore(k) == IF k = 1 THEN 0 ELSE directives[k - 1].terminator_start

\* Every directive found so far has its closing marker and its terminator.
AllTerminated == \A k \in 1..Len(directives) : Closed(k) /\ Terminated(k)

\* The scan loop of a file whose directives all have their markers: each
\* iteration moved the cursor on by 7 bytes or more and cut `remaining` there,
\* so there are at most N/7 directives. The line loops: the program of a
\* finished loop is the one the transformer gives.
C28_LoopsBounded ==
    /\ (pc \in {"scan", "run"} /\ AllTerminated) =>
          /\ \A k \in 1..Len(directives) :
                directives[k].terminator_start >= CursorBefore(k) + 7
          /\ cur = CursorBefore(Len(directives) + 1)
          /\ remaining = SubSeq(file_data, cur + 1, Len(file_data))
          /\ 7 * Len(directives) <= Len(file_data)
    /\ upc \in {"lines", "done"} =>
          /\ Len(ures.lines) <= Len(uarg)
          /\ ures.lines_count <= Len(uarg) - Len(ures.lines)
    /\ upc = "done" =>
          /\ ures.lines = <<>>
          /\ ures.new_python_string = NewPythonString(uarg)

\* Every iteration of a line loop shortens `lines` by one byte or more, and
\* every iteration of the scan loop that found both the closing marker and
\* the terminator shortens `remaining` by 7 bytes or more.
C28_LoopsShorten ==
    /\ (upc = "lines" /\ ures' # ures /\ upc' = "lines") =>
          Len(ures'.lines) < Len(ures.lines)
    /\ (pc = "scan" /\ pc' = "scan"
           /\ \E p \in 0..Len(remaining) : \E q \in (p + 2)..Len(remaining) :
                 /\ At(remaining, p, EndComment) /\ At(remaining, q, BeginComment)
                 /\ \E o \in 0..(p - 5) : At(remaining, o, pyexpand_keyword)
                                            /\ ~\E o2 \in 0..(o - 1) : At(remaining, o2, pyexpand_keyword)
                                            /\ ~\E p2 \in (o + 5)..(p - 1) : At(remaining, p2, EndComment)) =>
          Len(remaining') + 7 <= Len(remaining)

\* The loops are over: the scan loop was left (or the run aborted in it), the
\* line loop was left.
C28_LoopsOver == pc \notin {"start", "scan"} /\ upc # "lines"

\* C28: the scan loop and the line-splitting loops terminate; each iteration
\* of the scan loop on a directive with both its markers advances the cursor
\* by at least 7 bytes, so at most N/7 directives are emitted, and each Split
\* on a non-empty view removes at least one byte.
C28_LoopsTerminate ==
    /\ []C28_LoopsBounded
    /\ [][C28_LoopsShorten]_vars
    /\ <>C28_LoopsOver

\* The scan loop was left after two directives that have both their markers.
C28_Witness ==
    /\ pc = "run" /\ ~past_end
    /\ Len(directives) = 2
    /\ AllTerminated
    /\ cur >= 14

====
